---- MODULE Spec2Model ----
(***************************************************************************)
(* Model of src/key.go (package khepri): the key hierarchy (CreateKey,     *)
(* OpenKey, SearchKey), the authenticated cipher (pad, unpad, encrypt,     *)
(* decrypt) and the decrypting iterator (Key.Each).                        *)
(*                                                                         *)
(* Byte strings are sequences over 0..255 with the sizes the code uses     *)
(* (16-byte blocks, 32-byte MAC tags, 32-byte keys, 64-byte salts).  The   *)
(* library primitives the code calls (AES, HMAC-SHA256, scrypt, the random *)
(* source) are replaced by small stand-ins that keep what the code relies  *)
(* on: the block cipher is a keyed permutation of 16-byte blocks, the MAC  *)
(* is a keyed 32-byte tag that changes when one byte of the message or of  *)
(* the key changes, scrypt is a deterministic function of password, salt   *)
(* and cost parameters, and the random source is a seeded byte stream.     *)
(*                                                                         *)
(* Every function that can end in a Go panic returns a record whose field  *)
(* out is "ok", "error" or "panic"; field ops lists, in order, the         *)
(* primitive steps the call performed.                                     *)
(***************************************************************************)
EXTENDS Integers, Sequences, FiniteSets, TLC

VARIABLES
    wire,       \* cipher harness: the blob under test and where it came from
    opened,     \* cipher harness: the last decrypt call and its result
    repo,       \* the backend's objects of type backend.Key, in List order
    made,       \* per repo entry: what CreateKey generated (NoInfo if planted)
    call,       \* the last CreateKey / OpenKey / SearchKey call and its result
    objects,    \* the backend's objects of the type handed to Key.Each
    visits,     \* the last Key.Each call: the callbacks made and how it ended
    tab         \* NewKey and OpenKeyData tabulated on the inputs of the model

vars == <<wire, opened, repo, made, call, objects, visits, tab>>

----------------------------------------------------------------------------
(* Program constants *)

BlockSize == 16
MacSize == 32
aesKeysize == 32
hmacKeysize == 32
scrypt_saltsize == 64
scrypt_N == 65536
scrypt_r == 8
scrypt_p == 1

ErrUnauthenticated == "Ciphertext verification failed"
ErrNoKeyFound == "No key could be found"
ErrUnsupportedKDF == "only supported KDF is scrypt()"
ErrEmptySalt == "scrypt() called with empty salt"
ErrScrypt == "error deriving keys from password"
ErrJSON == "json: cannot unmarshal"
ErrBackend == "backend: operation failed"

(* Bounds of the model *)

MaxPlainLen == 17
NumKeySeeds == 2
NumIVSeeds == 1
MaxKeys == 2
MaxItems == 2

----------------------------------------------------------------------------
(* Bytes *)

Byte == 0..255

RECURSIVE XorBits(_, _, _)
XorBits(a, b, n) ==
    IF n = 0 THEN 0
    ELSE (((a % 2) + (b % 2)) % 2) + 2 * XorBits(a \div 2, b \div 2, n - 1)

XorTab == [a \in Byte |-> [b \in Byte |-> XorBits(a, b, 8)]]

(* A sequence given as a function on 1..n, as a tuple *)
AsSeq(f) == f \o <<>>

XorSeq(x, y) == AsSeq([i \in 1..Len(x) |-> XorTab[x[i]][y[i]]])

Repeat(b, n) == AsSeq([i \in 1..n |-> b])

(* crypto/rand: byte i (from offset off) of the stream the seed selects *)
RandBytes(seed, off, n) ==
    AsSeq([i \in 1..n |-> ((seed * 89) + ((off + i) * ((2 * seed) + 5)) + 13) % 256])

----------------------------------------------------------------------------
(* Results of calls *)

Ok(v, o) == [out |-> "ok", err |-> "", val |-> v, ops |-> o]
Err(e, o) == [out |-> "error", err |-> e, val |-> <<>>, ops |-> o]
Panic(o) == [out |-> "panic", err |-> "", val |-> <<>>, ops |-> o]

----------------------------------------------------------------------------
(* The block cipher and the MAC *)

ValidAESKey(key) == Len(key) \in {16, 24, 32}

KeyByte(key, i) == (key[i] + key[Len(key) - i + 1]) % 256

EncryptBlock(key, b) ==
    AsSeq([i \in 1..BlockSize |-> (b[(i % BlockSize) + 1] + KeyByte(key, i)) % 256])

DecryptBlock(key, c) ==
    AsSeq([j \in 1..BlockSize |->
              LET i == ((j + BlockSize - 2) % BlockSize) + 1
              IN (c[i] + 256 - KeyByte(key, i)) % 256])

Block(s, n) == SubSeq(s, (n - 1) * BlockSize + 1, n * BlockSize)

RECURSIVE CBCEncryptFrom(_, _, _, _)
CBCEncryptFrom(key, prev, p, n) ==
    IF (n - 1) * BlockSize >= Len(p) THEN <<>>
    ELSE LET c == EncryptBlock(key, XorSeq(Block(p, n), prev))
         IN c \o CBCEncryptFrom(key, c, p, n + 1)

CBCEncrypt(key, iv, p) == CBCEncryptFrom(key, iv, p, 1)

RECURSIVE CBCDecryptFrom(_, _, _, _)
CBCDecryptFrom(key, prev, c, n) ==
    IF (n - 1) * BlockSize >= Len(c) THEN <<>>
    ELSE XorSeq(DecryptBlock(key, Block(c, n)), prev)
             \o CBCDecryptFrom(key, Block(c, n), c, n + 1)

CBCDecrypt(key, iv, c) == CBCDecryptFrom(key, iv, c, 1)

RECURSIVE WeightedRange(_, _, _)
WeightedRange(msg, lo, hi) ==
    IF lo > hi THEN 0
    ELSE IF lo = hi THEN (lo * msg[lo]) % 65521
    ELSE LET mid == (lo + hi) \div 2
         IN (WeightedRange(msg, lo, mid) + WeightedRange(msg, mid + 1, hi)) % 65521

WeightedSum(msg, j) == WeightedRange(msg, 1, j)

Hmac(key, msg) ==
    LET c == ((Len(msg) * 257) + WeightedSum(msg, Len(msg))) % 65521
        k(i) == IF Len(key) = 0 THEN 0 ELSE key[((i - 1) % Len(key)) + 1]
        d(i) == IF i = 1 THEN c % 256
                ELSE IF i = 2 THEN c \div 256
                ELSE ((c * i) + i) % 256
    IN AsSeq([i \in 1..MacSize |-> (k(i) + d(i)) % 256])

----------------------------------------------------------------------------
(* Padding *)

pad(plaintext) ==
    LET l0 == BlockSize - (Len(plaintext) % BlockSize)
        l == IF l0 = 0 THEN BlockSize ELSE l0
    IN IF l <= 0 \/ l > BlockSize
       THEN Panic(<<>>)
       ELSE Ok(plaintext \o Repeat(l, l), <<>>)

unpad_KeepsOnePadByte(plaintext) ==
    LET l == Len(plaintext)
    IN IF l = 0 THEN Panic(<<>>)
       ELSE LET p == plaintext[l]
            IN IF p > BlockSize \/ p = 0 \/ l - p < 0 THEN Panic(<<>>)
               ELSE IF \E i \in (l - p + 1)..l : plaintext[i] # p THEN Panic(<<>>)
               ELSE Ok(SubSeq(plaintext, 1, l - p + 1), <<>>)

unpad(plaintext) ==
    LET l == Len(plaintext)
    IN IF l = 0 THEN Panic(<<>>)
       ELSE LET p == plaintext[l]
            IN IF p > BlockSize THEN Panic(<<>>)
               ELSE IF p = 0 THEN Panic(<<>>)
               ELSE IF l - p < 0 THEN Panic(<<>>)
               ELSE IF \E i \in (l - p + 1)..l : plaintext[i] # p THEN Panic(<<>>)
               ELSE Ok(SubSeq(plaintext, 1, l - p), <<>>)

----------------------------------------------------------------------------
(* encrypt and decrypt *)

newIV(seed) ==
    RandBytes(seed, scrypt_saltsize + aesKeysize + hmacKeysize, BlockSize)

encrypt_NoIV(ks, plaintext, iv) ==
    IF ~ValidAESKey(ks.Encrypt) THEN Panic(<<>>)
    ELSE LET p == pad(plaintext)
         IN IF p.out = "panic" THEN Panic(<<"pad">>)
            ELSE LET ciphertext == CBCEncrypt(ks.Encrypt, iv, p.val)
                 IN Ok(ciphertext \o Hmac(ks.Sign, ciphertext),
                       <<"pad", "aes", "hmac">>)

encrypt_SignWithEncryptKey(ks, plaintext, iv) ==
    IF ~ValidAESKey(ks.Encrypt) THEN Panic(<<>>)
    ELSE LET p == pad(plaintext)
         IN IF p.out = "panic" THEN Panic(<<"pad">>)
            ELSE LET ciphertext == iv \o CBCEncrypt(ks.Encrypt, iv, p.val)
                 IN Ok(ciphertext \o Hmac(ks.Encrypt, ciphertext),
                       <<"pad", "aes", "hmac">>)

encrypt(ks, plaintext, iv) ==
    IF ~ValidAESKey(ks.Encrypt) THEN Panic(<<>>)
    ELSE LET p == pad(plaintext)
         IN IF p.out = "panic" THEN Panic(<<"pad">>)
            ELSE LET ciphertext == iv \o CBCEncrypt(ks.Encrypt, iv, p.val)
                 IN Ok(ciphertext \o Hmac(ks.Sign, ciphertext),
                       <<"pad", "aes", "hmac">>)

decrypt_DecryptsBeforeVerify(ks, ciphertext) ==
    LET l == Len(ciphertext) - MacSize
    IN IF l < BlockSize \/ ~ValidAESKey(ks.Encrypt) \/ l % BlockSize # 0
       THEN Panic(<<>>)
       ELSE LET body == SubSeq(ciphertext, 1, l)
                mac == SubSeq(ciphertext, l + 1, Len(ciphertext))
                iv == SubSeq(body, 1, BlockSize)
                plaintext == CBCDecrypt(ks.Encrypt, iv, SubSeq(body, BlockSize + 1, l))
            IN IF mac # Hmac(ks.Sign, body)
               THEN Err(ErrUnauthenticated, <<"aes", "hmac">>)
               ELSE LET u == unpad(plaintext)
                    IN IF u.out = "panic" THEN Panic(<<"aes", "hmac", "unpad">>)
                       ELSE Ok(u.val, <<"aes", "hmac", "unpad">>)

decrypt(ks, ciphertext) ==
    LET l == Len(ciphertext) - MacSize
    IN IF l < 0 THEN Panic(<<>>)
       ELSE LET body == SubSeq(ciphertext, 1, l)
                mac == SubSeq(ciphertext, l + 1, Len(ciphertext))
                mac2 == Hmac(ks.Sign, body)
            IN IF mac # mac2 THEN Err(ErrUnauthenticated, <<"hmac">>)
               ELSE IF l < BlockSize THEN Panic(<<"hmac">>)
               ELSE IF ~ValidAESKey(ks.Encrypt) THEN Panic(<<"hmac">>)
               ELSE IF (l - BlockSize) % BlockSize # 0 THEN Panic(<<"hmac", "aes">>)
               ELSE LET iv == SubSeq(body, 1, BlockSize)
                        plaintext == CBCDecrypt(ks.Encrypt, iv,
                                                SubSeq(body, BlockSize + 1, l))
                        u == unpad(plaintext)
                    IN IF u.out = "panic" THEN Panic(<<"hmac", "aes", "unpad">>)
                       ELSE Ok(u.val, <<"hmac", "aes", "unpad">>)

----------------------------------------------------------------------------
(* encoding/json: []byte fields travel as base64 text (standard alphabet,  *)
(* '=' padding); text is a sequence of character codes.                    *)

B64Char(v) ==
    IF v < 26 THEN 65 + v
    ELSE IF v < 52 THEN 97 + (v - 26)
    ELSE IF v < 62 THEN 48 + (v - 52)
    ELSE IF v = 62 THEN 43 ELSE 47

B64Val(c) ==
    IF c >= 65 /\ c <= 90 THEN c - 65
    ELSE IF c >= 97 /\ c <= 122 THEN (c - 97) + 26
    ELSE IF c >= 48 /\ c <= 57 THEN (c - 48) + 52
    ELSE IF c = 43 THEN 62
    ELSE IF c = 47 THEN 63
    ELSE 0 - 1

B64Encode(b) ==
    LET n == Len(b)
        at(j) == IF j <= n THEN b[j] ELSE 0
    IN AsSeq([i \in 1..(4 * ((n + 2) \div 3)) |->
          LET g == (i - 1) \div 4
              k == (i - 1) % 4
              b0 == at((3 * g) + 1)
              b1 == at((3 * g) + 2)
              b2 == at((3 * g) + 3)
          IN IF k = 0 THEN B64Char(b0 \div 4)
             ELSE IF k = 1 THEN B64Char(((b0 % 4) * 16) + (b1 \div 16))
             ELSE IF k = 2 THEN
                  IF (3 * g) + 2 > n THEN 61
                  ELSE B64Char(((b1 % 16) * 4) + (b2 \div 64))
             ELSE IF (3 * g) + 3 > n THEN 61 ELSE B64Char(b2 % 64)])

B64Decode(c) ==
    LET n == Len(c)
        npad == IF n >= 2 /\ c[n] = 61 /\ c[n - 1] = 61 THEN 2
                ELSE IF n >= 1 /\ c[n] = 61 THEN 1 ELSE 0
        v(j) == IF j > n - npad THEN 0 ELSE B64Val(c[j])
    IN IF n % 4 # 0 \/ (\E j \in 1..(n - npad) : B64Val(c[j]) < 0)
       THEN Err(ErrJSON, <<>>)
       ELSE Ok(AsSeq([j \in 1..((3 * (n \div 4)) - npad) |->
                  LET g == (j - 1) \div 3
                      k == (j - 1) % 3
                      v0 == v((4 * g) + 1)
                      v1 == v((4 * g) + 2)
                      v2 == v((4 * g) + 3)
                      v3 == v((4 * g) + 4)
                  IN IF k = 0 THEN (v0 * 4) + (v1 \div 16)
                     ELSE IF k = 1 THEN ((v1 % 16) * 16) + (v2 \div 4)
                     ELSE ((v2 % 4) * 64) + v3]), <<>>)

(* {"Sign":"  ","Encrypt":"  "} *)
JsonKeysOpen == <<123, 34, 83, 105, 103, 110, 34, 58, 34>>
JsonKeysMid == <<34, 44, 34, 69, 110, 99, 114, 121, 112, 116, 34, 58, 34>>
JsonKeysClose == <<34, 125>>

MarshalKeys_FieldsSwapped(ks) ==
    JsonKeysOpen \o B64Encode(ks.Encrypt) \o JsonKeysMid \o B64Encode(ks.Sign)
        \o JsonKeysClose

MarshalKeys(ks) ==
    JsonKeysOpen \o B64Encode(ks.Sign) \o JsonKeysMid \o B64Encode(ks.Encrypt)
        \o JsonKeysClose

HasAt(buf, from, lit) ==
    /\ from + Len(lit) - 1 <= Len(buf)
    /\ SubSeq(buf, from, from + Len(lit) - 1) = lit

(* Index of the first '"' at or after from, 0 if there is none *)
NextQuote(buf, from) ==
    IF \E i \in from..Len(buf) : buf[i] = 34
    THEN CHOOSE i \in from..Len(buf) :
            buf[i] = 34 /\ \A j \in from..(i - 1) : buf[j] # 34
    ELSE 0

UnmarshalKeys(buf) ==
    LET s1 == Len(JsonKeysOpen) + 1
        q1 == NextQuote(buf, s1)
        s2 == q1 + Len(JsonKeysMid)
        q2 == NextQuote(buf, s2)
    IN IF ~HasAt(buf, 1, JsonKeysOpen) \/ q1 = 0 THEN Err(ErrJSON, <<>>)
       ELSE IF ~HasAt(buf, q1, JsonKeysMid) \/ q2 = 0 THEN Err(ErrJSON, <<>>)
       ELSE IF ~HasAt(buf, q2, JsonKeysClose) \/ q2 + 1 # Len(buf)
            THEN Err(ErrJSON, <<>>)
       ELSE LET sign == B64Decode(SubSeq(buf, s1, q1 - 1))
                enc == B64Decode(SubSeq(buf, s2, q2 - 1))
            IN IF sign.out # "ok" \/ enc.out # "ok" THEN Err(ErrJSON, <<>>)
               ELSE Ok([Encrypt |-> enc.val, Sign |-> sign.val], <<>>)

(* The persisted form of a Key: the fields json.Marshal writes that the    *)
(* code reads back; json is FALSE for stored bytes that are not a JSON     *)
(* object.                                                                 *)
MarshalKey(k) ==
    [json |-> TRUE, KDF |-> k.KDF, N |-> k.N, R |-> k.R, P |-> k.P,
     Salt |-> B64Encode(k.Salt), Data |-> B64Encode(k.Data)]

UnmarshalKey(data) ==
    IF ~data.json THEN Err(ErrJSON, <<>>)
    ELSE LET salt == B64Decode(data.Salt)
             d == B64Decode(data.Data)
         IN IF salt.out # "ok" \/ d.out # "ok" THEN Err(ErrJSON, <<>>)
            ELSE Ok([KDF |-> data.KDF, N |-> data.N, R |-> data.R, P |-> data.P,
                     Salt |-> salt.val, Data |-> d.val], <<>>)

----------------------------------------------------------------------------
(* scrypt *)

IsPowerOfTwo(n) == \E e \in 1..30 : n = 2^e

(* scrypt.Key: fails on cost parameters it rejects; otherwise the same    *)
(* keybytes bytes for the same password, salt and parameters.             *)
ScryptKey(password, salt, N, r, p, keybytes) ==
    IF N <= 1 \/ ~IsPowerOfTwo(N) \/ r <= 0 \/ p <= 0
    THEN Err(ErrScrypt, <<>>)
    ELSE LET h == (WeightedSum(password, Len(password)) * 31)
                    + (WeightedSum(salt, Len(salt)) * 3) + (N % 251) + (r * 7) + (p * 11)
         IN Ok(AsSeq([i \in 1..keybytes |-> (h + (i * ((2 * (h % 5)) + 3))) % 256]),
               <<>>)

scrypt(k, password) ==
    IF Len(k.Salt) = 0 THEN Err(ErrEmptySalt, <<>>)
    ELSE LET keybytes == hmacKeysize + aesKeysize
             scrypt_keys == ScryptKey(password, k.Salt, k.N, k.R, k.P, keybytes)
         IN IF scrypt_keys.out # "ok" THEN Err(ErrScrypt, <<"scrypt">>)
            ELSE IF Len(scrypt_keys.val) # keybytes THEN Err(ErrScrypt, <<"scrypt">>)
            ELSE Ok([Encrypt |-> SubSeq(scrypt_keys.val, 1, aesKeysize),
                     Sign |-> SubSeq(scrypt_keys.val, aesKeysize + 1, keybytes)],
                    <<"scrypt">>)

newKeys(seed) ==
    [Encrypt |-> RandBytes(seed, scrypt_saltsize, aesKeysize),
     Sign |-> RandBytes(seed, scrypt_saltsize + aesKeysize, hmacKeysize)]

----------------------------------------------------------------------------
(* Inputs of the cipher harness *)

NoKeys == [Encrypt |-> <<>>, Sign |-> <<>>]

KeyOf(seed) == RandBytes(seed, 0, aesKeysize)

KeyMaterials ==
    {[Encrypt |-> KeyOf(e), Sign |-> KeyOf(s)] : e, s \in 1..NumKeySeeds}

PlainLens == (0..MaxPlainLen) \cup {2 * BlockSize}

PlainBytes(n) == AsSeq([i \in 1..n |-> ((i * 7) + 1) % 256])

IVs == {newIV(seed) : seed \in 1..NumIVSeeds}

RawBlock(last, fill) ==
    AsSeq([i \in 1..BlockSize |-> IF i = BlockSize THEN last ELSE fill])

(* Byte strings a holder of the keys can put in front of a valid MAC tag *)
ForgedBody(k, iv, v) ==
    CASE v = 1 -> <<>>
      [] v = 2 -> SubSeq(iv, 1, 5)
      [] v = 3 -> iv
      [] v = 4 -> iv \o SubSeq(iv, 1, 5)
      [] v = 5 -> iv \o CBCEncrypt(k.Encrypt, iv, RawBlock(0, 9))
      [] v = 6 -> iv \o CBCEncrypt(k.Encrypt, iv, RawBlock(BlockSize + 1, 9))
      [] v = 7 -> iv \o CBCEncrypt(k.Encrypt, iv, RawBlock(3, 9))
      [] OTHER -> iv \o CBCEncrypt(k.Encrypt, iv, RawBlock(3, 3))

ForgedVariants == 1..8

NoWire == [kind |-> "none", ks |-> NoKeys, plaintext |-> <<>>, iv |-> <<>>,
           blob |-> <<>>, pos |-> 0]

NoCall == [op |-> "none", password |-> <<>>, id |-> 0, createFails |-> FALSE,
           listFails |-> FALSE, res |-> Ok(<<>>, <<>>), gets |-> <<>>]

NoInfo == [created |-> FALSE, password |-> <<>>, master |-> NoKeys]

NoTab == [new |-> <<>>, planted |-> <<>>, open |-> <<>>]

NoVisits == [done |-> FALSE, aborted |-> FALSE, err |-> "", calls |-> <<>>]

NotOpened == [called |-> FALSE, ks |-> NoKeys, res |-> Ok(<<>>, <<>>)]

----------------------------------------------------------------------------
(* The cipher harness: seal a plaintext, let the blob be altered in transit *)
(* at most once, open it.                                                   *)

Seal(k, p, iv) ==
    /\ wire.kind = "none"
    /\ LET r == encrypt(k, p, iv)
       IN /\ r.out = "ok"
          /\ wire' = [kind |-> "sealed", ks |-> k, plaintext |-> p, iv |-> iv,
                      blob |-> r.val, pos |-> 0]
    /\ UNCHANGED <<opened, repo, made, call, objects, visits, tab>>

Forge(k, iv, v) ==
    /\ wire.kind = "none"
    /\ LET body == ForgedBody(k, iv, v)
       IN wire' = [kind |-> "forged", ks |-> k, plaintext |-> <<>>, iv |-> iv,
                   blob |-> body \o Hmac(k.Sign, body), pos |-> v]
    /\ UNCHANGED <<opened, repo, made, call, objects, visits, tab>>

Tamper(pos, b) ==
    /\ wire.kind = "sealed"
    /\ ~opened.called
    /\ pos \in 1..Len(wire.blob)
    /\ b # wire.blob[pos]
    /\ wire' = [wire EXCEPT !.kind = "tampered", !.pos = pos,
                            !.blob = [wire.blob EXCEPT ![pos] = b]]
    /\ UNCHANGED <<opened, repo, made, call, objects, visits, tab>>

Truncate(n) ==
    /\ wire.kind = "sealed"
    /\ ~opened.called
    /\ n < Len(wire.blob)
    /\ wire' = [wire EXCEPT !.kind = "truncated", !.pos = n,
                            !.blob = SubSeq(wire.blob, 1, n)]
    /\ UNCHANGED <<opened, repo, made, call, objects, visits, tab>>

Open(k) ==
    /\ wire.kind # "none"
    /\ ~opened.called
    /\ opened' = [called |-> TRUE, ks |-> k, res |-> decrypt(k, wire.blob)]
    /\ UNCHANGED <<wire, repo, made, call, objects, visits, tab>>

InitCipher ==
    /\ wire = NoWire
    /\ opened = NotOpened
    /\ repo = <<>>
    /\ made = <<>>
    /\ call = NoCall
    /\ objects = <<>>
    /\ visits = NoVisits
    /\ tab = NoTab

NextCipher ==
    \/ \E k \in KeyMaterials, n \in PlainLens, iv \in IVs : Seal(k, PlainBytes(n), iv)
    \/ \E k \in KeyMaterials, iv \in IVs, v \in ForgedVariants : Forge(k, iv, v)
    \/ \E pos \in 1..Len(wire.blob) : Tamper(pos, XorTab[wire.blob[pos]][2 ^ (pos % 8)])
    \/ \E n \in 0..(BlockSize + MacSize) : Truncate(n)
    \/ \E k \in KeyMaterials : Open(k)

SpecCipher == InitCipher /\ [][NextCipher]_vars

----------------------------------------------------------------------------
(* The key hierarchy *)

Passwords == {<<112, 119, 49>>, <<112, 119, 50>>}

(* The random streams CreateKey may read *)
Seeds == {1, 2}

EncryptUser(k, plaintext, iv) == encrypt(k.user, plaintext, iv)
DecryptUser(k, ciphertext) == decrypt(k.user, ciphertext)
Encrypt(k, plaintext, iv) == encrypt(k.master, plaintext, iv)
Decrypt(k, ciphertext) == decrypt(k.master, ciphertext)

(* CreateKey up to the write: the Key it builds from the password and the  *)
(* random source                                                           *)
NewKey(password, seed) ==
    LET k0 == [KDF |-> "scrypt", N |-> scrypt_N, R |-> scrypt_r, P |-> scrypt_p,
               Salt |-> RandBytes(seed, 0, scrypt_saltsize), Data |-> <<>>,
               user |-> NoKeys, master |-> NoKeys]
        user == scrypt(k0, password)
    IN IF user.out # "ok" THEN Err(user.err, user.ops)
       ELSE LET k1 == [k0 EXCEPT !.user = user.val, !.master = newKeys(seed)]
                buf == MarshalKeys(k1.master)
                data == EncryptUser(k1, buf, newIV(seed))
            IN IF data.out # "ok" THEN Panic(<<"scrypt", "encrypt">>)
               ELSE Ok([k1 EXCEPT !.Data = data.val], <<"scrypt", "encrypt">>)

(* be.Get on the store: the stored object, or the backend's error for an  *)
(* id it has no object for or cannot read                                  *)
BackendGet(store, id) ==
    IF ~\E i \in 1..Len(store) : store[i].id = id /\ ~store[i].unreadable
    THEN Err(ErrBackend, <<>>)
    ELSE Ok((CHOOSE e \in {store[i] : i \in 1..Len(store)} : e.id = id).obj, <<>>)

OpenKeyData_NoKDFCheck(data, password) ==
    LET k == UnmarshalKey(data)
        user == scrypt(k.val, password)
        at == <<"json">> \o user.ops
        buf == DecryptUser(k.val @@ [user |-> user.val], k.val.Data)
        m == UnmarshalKeys(buf.val)
    IN IF k.out # "ok" THEN Err(k.err, <<"json">>)
       ELSE IF user.out # "ok" THEN Err(user.err, at)
       ELSE IF buf.out = "panic" THEN Panic(at \o buf.ops)
       ELSE IF buf.out = "error" THEN Err(buf.err, at \o buf.ops)
       ELSE IF m.out # "ok" THEN Err(m.err, at \o buf.ops \o <<"json">>)
       ELSE Ok(k.val @@ [user |-> user.val, master |-> m.val],
               at \o buf.ops \o <<"json">>)

(* OpenKey once be.Get has returned data *)
OpenKeyData(data, password) ==
    LET k == UnmarshalKey(data)
        user == scrypt(k.val, password)
        at == <<"json">> \o user.ops
        buf == DecryptUser(k.val @@ [user |-> user.val], k.val.Data)
        m == UnmarshalKeys(buf.val)
    IN IF k.out # "ok" THEN Err(k.err, <<"json">>)
       ELSE IF k.val.KDF # "scrypt" THEN Err(ErrUnsupportedKDF, <<"json">>)
       ELSE IF user.out # "ok" THEN Err(user.err, at)
       ELSE IF buf.out = "panic" THEN Panic(at \o buf.ops)
       ELSE IF buf.out = "error" THEN Err(buf.err, at \o buf.ops)
       ELSE IF m.out # "ok" THEN Err(m.err, at \o buf.ops \o <<"json">>)
       ELSE Ok(k.val @@ [user |-> user.val, master |-> m.val],
               at \o buf.ops \o <<"json">>)

(* Objects of type backend.Key that CreateKey did not write as they stand *)
PlantedKinds == {"junk", "kdf", "kdfcase", "short", "nosalt", "badN", "tampered",
                 "unreadable"}

Planted(kind) ==
    LET k == NewKey(<<112, 119, 49>>, 1).val
        good == MarshalKey(k)
    IN CASE kind = "unreadable" -> good
         [] kind = "junk" -> [good EXCEPT !.json = FALSE]
         [] kind = "kdf" -> [good EXCEPT !.KDF = "pbkdf2"]
         [] kind = "kdfcase" -> [good EXCEPT !.KDF = "Scrypt"]
         [] kind = "short" ->
                [good EXCEPT !.Data = B64Encode(SubSeq(k.Data, 1, MacSize - 1))]
         [] kind = "nosalt" -> [good EXCEPT !.Salt = <<>>]
         [] kind = "badN" -> [good EXCEPT !.N = 3]
         [] OTHER ->
                [good EXCEPT !.Data =
                    B64Encode([k.Data EXCEPT ![BlockSize + 1] = (@ + 1) % 256])]

(* NewKey and OpenKeyData are functions of their arguments alone; the key  *)
(* store harness computes their values for its passwords, seeds and stored *)
(* objects once, in its initial state, and looks them up afterwards.       *)
NewKeyOf == [pw \in Passwords |-> [seed \in Seeds |-> NewKey(pw, seed)]]

PlantedObject == [kind \in PlantedKinds |-> Planted(kind)]

StoredObjects ==
    {MarshalKey(NewKey(pw, seed).val) : pw \in Passwords, seed \in Seeds}
        \cup {Planted(kind) : kind \in PlantedKinds}

OpenKeyDataOf ==
    [data \in StoredObjects |-> [pw \in Passwords |-> OpenKeyData(data, pw)]]

(* OpenKey against the store's contents *)
OpenKeyOn(store, id, password) ==
    LET got == BackendGet(store, id)
        k == tab.open[got.val][password]
    IN IF got.out # "ok" THEN Err(got.err, <<"be.Get">>)
       ELSE [k EXCEPT !.ops = <<"be.Get">> \o @]

(* The loop of SearchKey from position i of the listing; gets are the ids  *)
(* fetched so far                                                          *)
RECURSIVE SearchFrom(_, _, _, _, _)
SearchFrom(store, i, password, ops, gets) ==
    IF i > Len(store)
    THEN [res |-> Err(ErrNoKeyFound, ops), gets |-> gets]
    ELSE LET id == store[i].id
             key == OpenKeyOn(store, id, password)
         IN IF key.out = "panic"
            THEN [res |-> Panic(ops \o key.ops), gets |-> Append(gets, id)]
            ELSE IF key.out = "error"
            THEN SearchFrom(store, i + 1, password, ops \o key.ops, Append(gets, id))
            ELSE [res |-> Ok(key.val, ops \o key.ops), gets |-> Append(gets, id)]

SearchKeyOn(store, password, listFails) ==
    IF listFails
    THEN [res |-> Panic(<<"be.List">>), gets |-> <<>>]
    ELSE SearchFrom(store, 1, password, <<"be.List">>, <<>>)

----------------------------------------------------------------------------
(* The key store harness: keys are created, foreign or damaged objects     *)
(* appear in the store, keys are opened and searched.  be.List returns the *)
(* objects in the order they were stored; every order of every kind of    *)
(* object is reached by storing them in that order.                        *)

Ids(store) == {store[i].id : i \in 1..Len(store)}

CreateKey(password, seed, createFails) ==
    /\ Len(repo) < MaxKeys
    /\ LET k == tab.new[password][seed]
           id == Len(made) + 1
       IN IF k.out # "ok"
          THEN /\ call' = [NoCall EXCEPT !.op = "create", !.password = password,
                                         !.res = k]
               /\ UNCHANGED <<repo, made>>
          ELSE IF createFails
          THEN /\ call' = [NoCall EXCEPT !.op = "create", !.password = password,
                              !.createFails = TRUE,
                              !.res = Err(ErrBackend, k.ops \o <<"be.Create">>)]
               /\ UNCHANGED <<repo, made>>
          ELSE /\ repo' = Append(repo, [id |-> id, unreadable |-> FALSE,
                                        obj |-> MarshalKey(k.val)])
               /\ made' = Append(made, [created |-> TRUE, password |-> password,
                                        master |-> k.val.master])
               /\ call' = [NoCall EXCEPT !.op = "create", !.password = password,
                              !.id = id,
                              !.res = Ok(k.val, k.ops \o <<"be.Create">>)]
    /\ UNCHANGED <<wire, opened, objects, visits, tab>>

Plant(kind) ==
    /\ Len(repo) < MaxKeys
    /\ repo' = Append(repo, [id |-> Len(made) + 1,
                             unreadable |-> (kind = "unreadable"),
                             obj |-> tab.planted[kind]])
    /\ made' = Append(made, NoInfo)
    /\ call' = NoCall
    /\ UNCHANGED <<wire, opened, objects, visits, tab>>

OpenKey(id, password) ==
    /\ id \in Ids(repo)
    /\ call' = [NoCall EXCEPT !.op = "open", !.password = password, !.id = id,
                   !.gets = <<id>>, !.res = OpenKeyOn(repo, id, password)]
    /\ UNCHANGED <<wire, opened, repo, made, objects, visits, tab>>

SearchKey(password, listFails) ==
    /\ LET r == SearchKeyOn(repo, password, listFails)
       IN call' = [NoCall EXCEPT !.op = "search", !.password = password,
                      !.listFails = listFails, !.gets = r.gets, !.res = r.res]
    /\ UNCHANGED <<wire, opened, repo, made, objects, visits, tab>>

InitKeys ==
    /\ wire = NoWire
    /\ opened = NotOpened
    /\ repo = <<>>
    /\ made = <<>>
    /\ call = NoCall
    /\ objects = <<>>
    /\ visits = NoVisits
    /\ tab = [new |-> NewKeyOf, planted |-> PlantedObject, open |-> OpenKeyDataOf]

NextKeys ==
    \/ \E pw \in Passwords, seed \in Seeds, f \in BOOLEAN : CreateKey(pw, seed, f)
    \/ \E kind \in PlantedKinds : Plant(kind)
    \/ \E id \in Ids(repo), pw \in Passwords : OpenKey(id, pw)
    \/ \E pw \in Passwords, lf \in BOOLEAN : SearchKey(pw, lf)

SpecKeys == InitKeys /\ [][NextKeys]_vars

----------------------------------------------------------------------------
(* Key.Each *)

(* The function Key.Each hands to backend.Each, called for one item; f is  *)
(* the caller's visit, recorded as the arguments it receives.              *)
EachCallback(k, id, data, e) ==
    IF e # ""
    THEN [panic |-> FALSE, visit |-> [id |-> id, buf |-> <<>>, err |-> e]]
    ELSE LET buf == Decrypt(k, data)
         IN IF buf.out = "panic"
            THEN [panic |-> TRUE, visit |-> [id |-> id, buf |-> <<>>, err |-> ""]]
            ELSE IF buf.out = "error"
            THEN [panic |-> FALSE, visit |-> [id |-> id, buf |-> <<>>, err |-> buf.err]]
            ELSE [panic |-> FALSE, visit |-> [id |-> id, buf |-> buf.val, err |-> ""]]

(* backend.Each from item i on: fetch each listed item and call the        *)
(* function with its data or its fetch error                               *)
RECURSIVE BackendEachFrom(_, _, _, _)
BackendEachFrom(k, store, i, calls) ==
    IF i > Len(store)
    THEN [done |-> TRUE, aborted |-> FALSE, err |-> "", calls |-> calls]
    ELSE LET it == store[i]
             c == IF it.fetchErr
                  THEN EachCallback(k, it.id, <<>>, ErrBackend)
                  ELSE EachCallback(k, it.id, it.data, "")
         IN IF c.panic
            THEN [done |-> TRUE, aborted |-> TRUE, err |-> "", calls |-> calls]
            ELSE BackendEachFrom(k, store, i + 1, Append(calls, c.visit))

KeyEach(k, store, listFails) ==
    IF listFails
    THEN [done |-> TRUE, aborted |-> FALSE, err |-> ErrBackend, calls |-> <<>>]
    ELSE BackendEachFrom(k, store, 1, <<>>)

(* The open repository's Key and the objects found in its store *)
RepoKey == NewKeyOf[<<112, 119, 49>>][1].val

OtherKey == NewKeyOf[<<112, 119, 49>>][2].val

ItemKinds == {"empty", "short", "block", "fetcherr", "tampered", "otherkey",
              "cut", "cutmac", "badpad"}

ItemData(kind) ==
    LET iv == newIV(2)
        sealed(n) == Encrypt(RepoKey, PlainBytes(n), iv).val
        body == iv \o CBCEncrypt(RepoKey.master.Encrypt, iv, RawBlock(0, 9))
    IN CASE kind = "empty" -> sealed(0)
         [] kind = "short" -> sealed(5)
         [] kind = "block" -> sealed(BlockSize)
         [] kind = "fetcherr" -> <<>>
         [] kind = "tampered" -> [sealed(5) EXCEPT ![BlockSize + 2] = (@ + 1) % 256]
         [] kind = "otherkey" -> Encrypt(OtherKey, PlainBytes(5), iv).val
         [] kind = "cut" -> SubSeq(sealed(5), 1, BlockSize + MacSize + 5)
         [] kind = "cutmac" -> SubSeq(sealed(5), 1, MacSize - 2)
         [] OTHER -> body \o Hmac(RepoKey.master.Sign, body)

ItemOf == [kind \in ItemKinds |->
              [kind |-> kind, fetchErr |-> (kind = "fetcherr"), data |-> ItemData(kind)]]

Put(kind) ==
    /\ Len(objects) < MaxItems
    /\ objects' = Append(objects, ItemOf[kind] @@ [id |-> Len(objects) + 1])
    /\ visits' = NoVisits
    /\ UNCHANGED <<wire, opened, repo, made, call, tab>>

Each(listFails) ==
    /\ visits' = KeyEach(RepoKey, objects, listFails)
    /\ UNCHANGED <<wire, opened, repo, made, call, objects, tab>>

InitEach ==
    /\ wire = NoWire
    /\ opened = NotOpened
    /\ repo = <<>>
    /\ made = <<>>
    /\ call = NoCall
    /\ objects = <<>>
    /\ visits = NoVisits
    /\ tab = NoTab

NextEach ==
    \/ \E kind \in ItemKinds : Put(kind)
    \/ \E lf \in BOOLEAN : Each(lf)

SpecEach == InitEach /\ [][NextEach]_vars

----------------------------------------------------------------------------
(* Claims about the cipher, checked under SpecCipher *)

BlobBody(b) == SubSeq(b, 1, Len(b) - MacSize)
BlobTag(b) == SubSeq(b, Len(b) - MacSize + 1, Len(b))
PadLen(p) == BlockSize - (Len(p) % BlockSize)
Has(ops, step) == \E i \in 1..Len(ops) : ops[i] = step

\* C1: opening an untouched sealed blob under the sealing KeyMaterial returns
\* exactly the sealed plaintext and no error, for every length; a plaintext
\* whose length is a multiple of the block size is sealed with one full block
\* of padding, which open strips.
C1_RoundTrip ==
    (opened.called /\ wire.kind = "sealed" /\ opened.ks = wire.ks) =>
        /\ opened.res.out = "ok"
        /\ opened.res.val = wire.plaintext
        /\ (Len(wire.plaintext) % BlockSize = 0 =>
               Len(wire.blob) - BlockSize - MacSize = Len(wire.plaintext) + BlockSize)

C1_Witness ==
    /\ opened.called
    /\ wire.kind = "sealed"
    /\ opened.ks = wire.ks
    /\ Len(wire.plaintext) = 2 * BlockSize
    /\ Len(wire.blob) = 4 * BlockSize + MacSize
    /\ opened.res.val = wire.plaintext

\* C2: when the last MacSize bytes of a blob are not the MAC of the bytes
\* before them under the opening signing key, decrypt returns
\* ErrUnauthenticated having run neither the block cipher nor the padding
\* check; a sealed blob with one position changed (IV, ciphertext or MAC
\* region) is rejected with ErrUnauthenticated.
C2_VerifyThenDecrypt ==
    opened.called =>
        /\ (/\ Len(wire.blob) >= MacSize
            /\ BlobTag(wire.blob) # Hmac(opened.ks.Sign, BlobBody(wire.blob)))
           => /\ opened.res.out = "error"
              /\ opened.res.err = ErrUnauthenticated
              /\ ~Has(opened.res.ops, "aes")
              /\ ~Has(opened.res.ops, "unpad")
        /\ wire.kind = "tampered"
           => /\ opened.res.out = "error"
              /\ opened.res.err = ErrUnauthenticated
              /\ opened.res.ops = <<"hmac">>

C2_Witness ==
    /\ opened.called
    /\ wire.kind = "tampered"
    /\ opened.ks = wire.ks
    /\ wire.pos > BlockSize
    /\ wire.pos <= Len(wire.blob) - MacSize
    /\ opened.res.err = ErrUnauthenticated

\* C3 (as claimed): every decrypt call ends by returning a plaintext or an
\* error; none ends in a panic.
C3_NeverAborts ==
    opened.called => opened.res.out \in {"ok", "error"}

\* C4 (as claimed): a blob sealed under KeyMaterial A and opened under any
\* B # A is rejected with ErrUnauthenticated.
C4_AnyOtherKeyRejected ==
    (opened.called /\ wire.kind = "sealed" /\ opened.ks # wire.ks) =>
        (opened.res.out = "error" /\ opened.res.err = ErrUnauthenticated)

\* C4 (amended): a blob sealed under KeyMaterial A and opened under a B whose
\* signing key differs from A's is rejected with ErrUnauthenticated.
C4_OtherSigningKeyRejected ==
    (opened.called /\ wire.kind = "sealed" /\ opened.ks.Sign # wire.ks.Sign) =>
        (opened.res.out = "error" /\ opened.res.err = ErrUnauthenticated)

C4_Witness ==
    /\ opened.called
    /\ wire.kind = "sealed"
    /\ opened.ks.Sign # wire.ks.Sign
    /\ opened.ks.Encrypt = wire.ks.Encrypt
    /\ opened.res.err = ErrUnauthenticated

----------------------------------------------------------------------------
(* Claims about the key hierarchy, checked under SpecKeys *)

Count(ops, step) == Cardinality({i \in 1..Len(ops) : ops[i] = step})
NoDuplicates(seq) == \A i, j \in 1..Len(seq) : seq[i] = seq[j] => i = j
EntryOf(id) == CHOOSE e \in {repo[i] : i \in 1..Len(repo)} : e.id = id
Opens(i) == OpenKeyOn(repo, repo[i].id, call.password)
Hits == {i \in 1..Len(repo) : Opens(i).out = "ok"}
FirstHit == CHOOSE i \in Hits : \A j \in Hits : i <= j

\* C5 (as claimed): whatever the store holds, SearchKey tries the listed
\* records in the store's order, returns the Key of the first record that
\* opens under the password, returns ErrNoKeyFound when every attempt fails
\* (with no KDF derivation when there is no record), and never aborts.
C5_SearchReturnsFirstMatch ==
    (call.op = "search" /\ ~call.listFails) =>
        /\ call.res.out # "panic"
        /\ Hits = {} =>
              /\ call.res.out = "error"
              /\ call.res.err = ErrNoKeyFound
              /\ call.gets = [i \in 1..Len(repo) |-> repo[i].id]
        /\ Hits # {} =>
              /\ call.res.out = "ok"
              /\ call.res.val = Opens(FirstHit).val
              /\ call.gets = [i \in 1..FirstHit |-> repo[i].id]
        /\ Len(repo) = 0 => ~Has(call.res.ops, "scrypt")

\* C6: after a successful CreateKey the store holds the new record, and
\* OpenKey on that record with the same password succeeds and returns the
\* master keys (Encrypt and Sign) that CreateKey generated.
C6_CreateThenOpen ==
    /\ (call.op = "create" /\ call.res.out = "ok") =>
          /\ call.id \in Ids(repo)
          /\ made[call.id].master = call.res.val.master
          /\ OpenKeyOn(repo, call.id, call.password).out = "ok"
          /\ OpenKeyOn(repo, call.id, call.password).val.master
                = call.res.val.master
    /\ (/\ call.op = "open"
        /\ made[call.id].created
        /\ made[call.id].password = call.password) =>
          /\ call.res.out = "ok"
          /\ call.res.val.master = made[call.id].master

C6_Witness ==
    /\ call.op = "open"
    /\ made[call.id].created
    /\ made[call.id].password = call.password
    /\ call.res.out = "ok"
    /\ call.res.val.master = newKeys(2)
    /\ Len(call.res.val.master.Encrypt) = aesKeysize
    /\ Len(call.res.val.master.Sign) = hmacKeysize

\* C8: OpenKey on a stored record whose KDF field is not "scrypt" fails with
\* the unsupported-KDF error, having derived no key and having attempted no
\* MAC check or decryption of Data.
C8_UnknownKDFRejected ==
    (/\ call.op = "open"
     /\ ~EntryOf(call.id).unreadable
     /\ EntryOf(call.id).obj.json
     /\ EntryOf(call.id).obj.KDF # "scrypt") =>
        /\ call.res.out = "error"
        /\ call.res.err = ErrUnsupportedKDF
        /\ ~Has(call.res.ops, "scrypt")
        /\ ~Has(call.res.ops, "hmac")
        /\ ~Has(call.res.ops, "aes")

C8_Witness ==
    /\ call.op = "open"
    /\ ~EntryOf(call.id).unreadable
    /\ EntryOf(call.id).obj.KDF = "pbkdf2"
    /\ call.res.err = ErrUnsupportedKDF

\* C10 (as claimed): a failing store operation (Create in CreateKey, Get in
\* OpenKey, List in SearchKey) makes the call return an error and no Key,
\* without aborting, and no store operation is repeated within a call.
C10_StoreFailuresReturned ==
    /\ (call.op = "create" /\ call.createFails) =>
          (call.res.out = "error" /\ call.res.err = ErrBackend)
    /\ (call.op = "open" /\ EntryOf(call.id).unreadable) =>
          (call.res.out = "error" /\ call.res.err = ErrBackend)
    /\ (call.op = "search" /\ call.listFails) => call.res.out = "error"
    /\ Count(call.res.ops, "be.Create") <= 1
    /\ Count(call.res.ops, "be.List") <= 1
    /\ Count(call.res.ops, "be.Get") = Len(call.gets)
    /\ NoDuplicates(call.gets)

----------------------------------------------------------------------------
(* Claims about Key.Each, checked under SpecEach *)

\* C7 (as claimed): Key.Each calls the visit function exactly once for every
\* item of the store, in order, with the item's id and with the fetch error,
\* the decryption error or the plaintext; no item's failure ends the
\* iteration early.
C7_EveryItemVisited ==
    (visits.done /\ visits.err = "") =>
        /\ ~visits.aborted
        /\ Len(visits.calls) = Len(objects)
        /\ \A i \in 1..Len(visits.calls) :
              LET v == visits.calls[i]
                  it == objects[i]
              IN /\ v.id = it.id
                 /\ it.fetchErr => (v.err = ErrBackend /\ v.buf = <<>>)
                 /\ ~it.fetchErr =>
                       LET r == Decrypt(RepoKey, it.data)
                       IN IF r.out = "ok" THEN v.err = "" /\ v.buf = r.val
                          ELSE v.err = r.err /\ v.buf = <<>>

====
